---------------------------- MODULE Spec2Model ----------------------------
(***************************************************************************)
(* A model of src/src/Elm/Kernel/Browser.js: the animator returned by     *)
(* _Browser_makeAnimator, the deferred host operations (navigation, DOM   *)
(* queries, scrolling), the global event subscription _Browser_on and     *)
(* _Browser_decodeEvent.  The host (history, DOM, event targets, the      *)
(* animation clock) is modelled by what the kernel code asks of it.       *)
(***************************************************************************)
EXTENDS Integers, Sequences, FiniteSets, TLC

(***************************************************************************)
(* Bounds of the model.                                                    *)
(***************************************************************************)
NumModels == 2      \* application models are 0..NumModels
HistLen == 4        \* animator calls remembered (a sliding window)
NumSubs == 2        \* subscriptions made with _Browser_on
MaxEvents == 2      \* host events dispatched
MaxDecodes == 2     \* calls of _Browser_decodeEvent remembered
MaxExtent == 2      \* scroll extents are 0..MaxExtent, offsets 0..MaxExtent+1
MaxMutations == 2   \* insertions and removals of nodes by the host page
NumNavTasks == 2    \* navigation tasks made (go, pushState, replaceState)
MaxGo == 1          \* go(n) is called with n in -MaxGo..MaxGo
NumLoads == 2       \* real navigation tasks made (reload, load)

VARIABLES
    state,          \* Browser.js:195  the animator's state
    model,          \* Browser.js:191  the animator's model (closure variable)
    frames,         \* outstanding requestAnimationFrame(updateIfNeeded) callbacks
    hist,           \* the last HistLen animator calls, with what each did
    notified,       \* the model of the most recent notify (initially the initial model)
    sinceNotify,    \* the models drawn since the most recent notify
    passiveSupported, \* Browser.js:289  __VirtualDom_passiveSupported
    listeners,      \* the event listeners registered on the host's nodes
    subs,           \* the subscriptions made with _Browser_on
    dispatched,     \* the number of host events dispatched so far
    decoded,        \* the calls of _Browser_decodeEvent made so far
    dom,            \* the document: for each id, the node with that id, if any
    mutations,      \* the number of insertions and removals made so far
    tasks,          \* the tasks made with _Browser_withNode
    rafQueue,       \* the withNode callbacks requested and not yet fired, oldest first
    history,        \* the host's session history: its entries and the current one
    traversals,     \* the history.go(n) calls the host has not yet carried out
    navTasks,       \* the navigation tasks made
    lastNav,        \* the last navigation operation, with what it did
    prevNav,        \* the navigation operation before the last
    hostThrows,     \* whether this host throws when location is given a malformed URL
    requests,       \* the page loads asked of the host, oldest first
    loadTasks       \* the real navigation tasks made

animVars == <<state, model, frames, hist, notified, sinceNotify>>

eventVars == <<passiveSupported, listeners, subs, dispatched>>

decodeVars == <<decoded>>

domVars == <<dom, mutations, tasks, rafQueue>>

navVars == <<history, traversals, navTasks, lastNav, prevNav>>

loadVars == <<hostThrows, requests, loadTasks>>

vars == <<state, model, frames, hist, notified, sinceNotify,
          passiveSupported, listeners, subs, dispatched, decoded,
          dom, mutations, tasks, rafQueue,
          history, traversals, navTasks, lastNav, prevNav,
          hostThrows, requests, loadTasks>>

(***************************************************************************)
(* ANIMATION  (Browser.js:185-216)                                         *)
(***************************************************************************)
NO_REQUEST == "NO_REQUEST"
PENDING_REQUEST == "PENDING_REQUEST"
EXTRA_REQUEST == "EXTRA_REQUEST"

AnimatorStates == {NO_REQUEST, PENDING_REQUEST, EXTRA_REQUEST}

Models == 0..NumModels

\* _Browser_requestAnimationFrame(callback): one more callback is outstanding,
\* with requestAnimationFrame and with the setTimeout fallback alike.
Browser_requestAnimationFrame(outstanding) == outstanding + 1

\* draw(model): the draw callback of the animator, recorded in a log.
draw(log, m) == Append(log, m)

updateIfNeeded_redraws_always(s) == TRUE

updateIfNeeded_redraws_never(s) == FALSE

\* updateIfNeeded, line 199-201: does this firing request another frame and draw?
updateIfNeeded_redraws(s) == s # EXTRA_REQUEST

updateIfNeeded_state_swapped(s) == IF s = EXTRA_REQUEST THEN EXTRA_REQUEST ELSE NO_REQUEST

\* updateIfNeeded, line 199-201: the state assigned.
updateIfNeeded_state(s) == IF s = EXTRA_REQUEST THEN NO_REQUEST ELSE EXTRA_REQUEST

notify_draws_never(isSync) == FALSE

\* the returned function, line 208-214: does this call draw?
notify_draws(isSync) == isSync

notify_requests_each(s, isSync) == ~isSync

\* the returned function, line 212: does this call request a frame?
notify_requests(s, isSync) == ~isSync /\ s = NO_REQUEST

notify_state_keep(s, isSync) ==
    IF isSync
    THEN IF s = PENDING_REQUEST THEN EXTRA_REQUEST ELSE s
    ELSE IF s = NO_REQUEST THEN PENDING_REQUEST ELSE s

notify_state_noescalate(s, isSync) == IF isSync THEN s ELSE PENDING_REQUEST

\* the returned function, line 210 and 213: the state after the call.
notify_state(s, isSync) ==
    IF isSync
    THEN IF s = PENDING_REQUEST THEN EXTRA_REQUEST ELSE s
    ELSE PENDING_REQUEST

notify_model_first(old, nextModel) == old

\* the stored model after the call, line 206.
notify_model(old, nextModel) == nextModel

Push(h, e) == IF Len(h) < HistLen THEN Append(h, e) ELSE Append(Tail(h), e)

Grow(log, ms) == IF Len(log) + Len(ms) <= HistLen THEN log \o ms ELSE log

(***************************************************************************)
(* GLOBAL EVENTS  (Browser.js:280-300)                                     *)
(***************************************************************************)
SubIds == 1..NumSubs

\* _Browser_doc and _Browser_window: a node of the host, or _Browser_fakeNode.
Nodes == {"document", "fakeNode"}

EventNames == {"click", "keydown"}

\* The third argument of addEventListener / removeEventListener as the host
\* reads it: a boolean is the capture flag, an object carries named options,
\* an absent argument means no capture.
BooleanOption(b) == [kind |-> "boolean", capture |-> b, passive |-> FALSE]

ObjectOption(p) == [kind |-> "object", capture |-> FALSE, passive |-> p]

NoOption == [kind |-> "undefined", capture |-> FALSE, passive |-> FALSE]

on_options_capture(supported, passive) == BooleanOption(passive)

\* line 289: __VirtualDom_passiveSupported && { passive: passive }
on_options(supported, passive) ==
    IF supported THEN ObjectOption(passive) ELSE BooleanOption(FALSE)

\* node.addEventListener(eventName, handler, options): the host keeps one
\* listener per (type, callback, capture); _Browser_fakeNode keeps none.
addEventListener(ls, node, eventName, handler, options) ==
    IF node = "fakeNode" THEN ls
    ELSE IF \E l \in ls : /\ l.node = node /\ l.type = eventName
                          /\ l.handler = handler /\ l.capture = options.capture
         THEN ls
         ELSE ls \cup {[node |-> node, type |-> eventName, handler |-> handler,
                        capture |-> options.capture, passive |-> options.passive]}

\* node.removeEventListener(eventName, handler, options): the host removes the
\* listener with that type, callback and capture flag, if there is one.
removeEventListener(ls, node, eventName, handler, options) ==
    IF node = "fakeNode" THEN ls
    ELSE {l \in ls : ~(/\ l.node = node /\ l.type = eventName
                       /\ l.handler = handler /\ l.capture = options.capture)}

NoSub == [pc |-> "none", node |-> "fakeNode", passive |-> FALSE,
          eventName |-> "click", spawned |-> 0, late |-> 0, after |-> 0]

\* A decoder applied to an event: failure, or a value with the flag that asks
\* for the default behaviour to be prevented.
Msgs == {"m1", "m2"}

Decoders == [ok : BOOLEAN, value : Msgs, preventDefault : BOOLEAN]

RawEvents == [type : EventNames, preventDefaultCalls : {0}]

\* __Json_runHelp(decoder, event)
Json_runHelp(decoder, event) == decoder

Nothing == [ctor |-> "Nothing", a |-> "none"]

Just(v) == [ctor |-> "Just", a |-> v]

Browser_decodeEvent_eager(decoder, event) ==
    LET result == Json_runHelp(decoder, event)
    IN  [ret |-> IF result.ok THEN Just(result.value) ELSE Nothing,
         event |-> [event EXCEPT !.preventDefaultCalls = @ + 1]]

\* _Browser_decodeEvent(decoder, event): the value returned, and the event with
\* the calls of event.preventDefault() made.
Browser_decodeEvent(decoder, event) ==
    LET result == Json_runHelp(decoder, event)
    IN  IF result.ok
        THEN [ret |-> Just(result.value),
              event |-> IF result.preventDefault
                        THEN [event EXCEPT !.preventDefaultCalls = @ + 1]
                        ELSE event]
        ELSE [ret |-> Nothing, event |-> event]

InitEvents ==
    /\ passiveSupported \in BOOLEAN
    /\ listeners = {}
    /\ subs = [s \in SubIds |-> NoSub]
    /\ dispatched = 0

NoEvents ==
    /\ passiveSupported = FALSE
    /\ listeners = {}
    /\ subs = [s \in SubIds |-> NoSub]
    /\ dispatched = 0

\* _Browser_on(node, passive, eventName, sendToSelf): the task is built; nothing
\* is done to the host.
Browser_on(s, node, passive, eventName) ==
    /\ subs[s].pc = "none"
    /\ subs' = [subs EXCEPT ![s] = [NoSub EXCEPT !.pc = "task", !.node = node,
                                    !.passive = passive, !.eventName = eventName]]
    /\ UNCHANGED <<passiveSupported, listeners, dispatched>>

\* The scheduler runs the spawned binding (line 286-290): handler s is added.
RunOn(s) ==
    /\ subs[s].pc = "task"
    /\ listeners' = addEventListener(listeners, subs[s].node, subs[s].eventName, s,
                                     on_options(passiveSupported, subs[s].passive))
    /\ subs' = [subs EXCEPT ![s].pc = "running"]
    /\ UNCHANGED <<passiveSupported, dispatched>>

KillOn_anyHandler(s) ==
    /\ subs[s].pc = "running"
    /\ listeners' = {l \in listeners :
                        ~(l.node = subs[s].node /\ l.type = subs[s].eventName)}
    /\ subs' = [subs EXCEPT ![s].pc = "killed"]
    /\ UNCHANGED <<passiveSupported, dispatched>>

\* The scheduler kills the process: the function returned on line 290 runs.
KillOn(s) ==
    /\ subs[s].pc = "running"
    /\ listeners' = removeEventListener(listeners, subs[s].node, subs[s].eventName, s,
                                        NoOption)
    /\ subs' = [subs EXCEPT ![s].pc = "killed"]
    /\ UNCHANGED <<passiveSupported, dispatched>>

\* The host dispatches an event on a node: every listener of that type runs its
\* handler (line 288), which calls __Scheduler_rawSpawn(sendToSelf(event)).
Dispatch(node, eventName) ==
    /\ dispatched < MaxEvents
    /\ node # "fakeNode"
    /\ dispatched' = dispatched + 1
    /\ LET ran == {l.handler : l \in {k \in listeners : k.node = node /\ k.type = eventName}}
       IN  subs' = [s \in SubIds |->
                [subs[s] EXCEPT
                    !.spawned = IF s \in ran THEN @ + 1 ELSE @,
                    !.late = IF s \in ran /\ subs[s].pc = "killed" THEN @ + 1 ELSE @,
                    !.after = IF /\ subs[s].pc = "killed" /\ subs[s].node = node
                                 /\ subs[s].eventName = eventName
                              THEN @ + 1 ELSE @]]
    /\ UNCHANGED <<passiveSupported, listeners>>

\* A call of _Browser_decodeEvent(decoder, event).
DecodeEvent(decoder, event) ==
    /\ Len(decoded) < MaxDecodes
    /\ LET r == Browser_decodeEvent(decoder, event)
       IN  decoded' = Append(decoded, [decoder |-> decoder, type |-> event.type,
                                       ret |-> r.ret,
                                       calls |-> r.event.preventDefaultCalls])

Subscribe ==
    \E s \in SubIds, n \in Nodes, p \in BOOLEAN, e \in EventNames :
        Browser_on(s, n, p, e) /\ UNCHANGED <<animVars, decodeVars, domVars, navVars, loadVars>>

Start == \E s \in SubIds : RunOn(s) /\ UNCHANGED <<animVars, decodeVars, domVars, navVars, loadVars>>

Teardown == \E s \in SubIds : KillOn(s) /\ UNCHANGED <<animVars, decodeVars, domVars, navVars, loadVars>>

HostEvent ==
    \E n \in Nodes, e \in EventNames :
        Dispatch(n, e) /\ UNCHANGED <<animVars, decodeVars, domVars, navVars, loadVars>>

Decode ==
    \E d \in Decoders, ev \in RawEvents :
        DecodeEvent(d, ev) /\ UNCHANGED <<animVars, eventVars, domVars, navVars, loadVars>>

NextEvents == Subscribe \/ Start \/ Teardown \/ HostEvent

NextDecode == Decode

(***************************************************************************)
(* DOM STUFF and SCROLLING  (Browser.js:223-273)                           *)
(***************************************************************************)
\* One task made with _Browser_withNode is followed from its construction to its
\* result, while the page changes the document.
TaskIds == {"t1"}

Ids == {"a", "b"}

ScrollAxes == {"scrollLeft", "scrollTop"}

ScrollMaxes == {"scrollWidth", "scrollHeight"}

FunctionNames == {"focus", "blur"}

Extents == 0..MaxExtent

Offsets == 0..(MaxExtent + 1)

\* What document.getElementById(id) returns when no node has the id.
NoNode == [present |-> FALSE, scrollLeft |-> 0, scrollTop |-> 0,
           scrollWidth |-> 0, scrollHeight |-> 0, invoked |-> "none"]

NewNode(w, h) == [present |-> TRUE, scrollLeft |-> 0, scrollTop |-> 0,
                  scrollWidth |-> w, scrollHeight |-> h, invoked |-> "none"]

\* document.getElementById(id), line 229
getElementById(d, id) == d[id]

ExtentOf(scroll) == IF scroll = "scrollLeft" THEN "scrollWidth" ELSE "scrollHeight"

OtherAxis(scroll) == IF scroll = "scrollLeft" THEN "scrollTop" ELSE "scrollLeft"

Clamp(v, lo, hi) == IF v < lo THEN lo ELSE IF v > hi THEN hi ELSE v

\* node[scroll] = v (line 262, 270): the host's setter of scrollLeft / scrollTop
\* keeps the position within the scrollable extent (of a node with an empty
\* client box: 0..scrollWidth, 0..scrollHeight).
AssignScroll(node, scroll, v) ==
    [node EXCEPT ![scroll] = Clamp(v, 0, node[ExtentOf(scroll)])]

Tuple0 == [ctor |-> "Tuple0", a |-> 0, b |-> 0, id |-> ""]

Tuple2(x, y) == [ctor |-> "Tuple2", a |-> x, b |-> y, id |-> ""]

Dom_NotFound(id) == [ctor |-> "NotFound", a |-> 0, b |-> 0, id |-> id]

Scheduler_succeed(v) == [tag |-> "succeed", value |-> v]

Scheduler_fail(e) == [tag |-> "fail", value |-> e]

NoResult == [tag |-> "none", value |-> Tuple0]

\* _Browser_call(functionName, id): the function given to _Browser_withNode.
Browser_call(functionName, node) ==
    [node |-> [node EXCEPT !.invoked = functionName], value |-> Tuple0]

\* _Browser_getScroll(id): the function given to _Browser_withNode.
Browser_getScroll(node) ==
    [node |-> node, value |-> Tuple2(node.scrollLeft, node.scrollTop)]

\* _Browser_setPositiveScroll(scroll, id, offset): the function given to
\* _Browser_withNode.
Browser_setPositiveScroll(scroll, offset, node) ==
    [node |-> AssignScroll(node, scroll, offset), value |-> Tuple0]

Browser_setNegativeScroll_reversed(scroll, scrollMax, offset, node) ==
    [node |-> AssignScroll(node, scroll, offset - node[scrollMax]), value |-> Tuple0]

\* _Browser_setNegativeScroll(scroll, scrollMax, id, offset): the function given
\* to _Browser_withNode.
Browser_setNegativeScroll(scroll, scrollMax, offset, node) ==
    [node |-> AssignScroll(node, scroll, node[scrollMax] - offset), value |-> Tuple0]

\* The doStuff of a task, applied to the node found.
doStuff(t, node) ==
    CASE t.kind = "call" -> Browser_call(t.functionName, node)
      [] t.kind = "getScroll" -> Browser_getScroll(node)
      [] t.kind = "setPositiveScroll" -> Browser_setPositiveScroll(t.scroll, t.offset, node)
      [] t.kind = "setNegativeScroll" ->
            Browser_setNegativeScroll(t.scroll, t.scrollMax, t.offset, node)

withNode_node_early(atStart, atTick) == atStart

\* line 227-229: the lookup runs inside the frame callback, so the node is the
\* one the document holds when the callback fires.
withNode_node(atStart, atTick) == atTick

withNode_callback_quiet(node, id, value) == Scheduler_succeed(Tuple0)

\* line 230-233: what the callback is given.
withNode_callback(node, id, value) ==
    IF node.present THEN Scheduler_succeed(value) ELSE Scheduler_fail(Dom_NotFound(id))

NoTask == [pc |-> "none", kind |-> "call", id |-> "a", functionName |-> "focus",
           scroll |-> "scrollLeft", scrollMax |-> "scrollWidth", offset |-> 0,
           result |-> NoResult, ran |-> 0, resolved |-> 0,
           requested |-> 0, lookups |-> 0,
           atStart |-> NoNode, atTick |-> NoNode, post |-> NoNode]

TaskKinds ==
    {[NoTask EXCEPT !.kind = "call", !.id = i, !.functionName = f] :
        i \in Ids, f \in FunctionNames}
    \cup {[NoTask EXCEPT !.kind = "getScroll", !.id = i] : i \in Ids}
    \cup {[NoTask EXCEPT !.kind = "setPositiveScroll", !.id = i, !.scroll = x, !.offset = o] :
            i \in Ids, x \in ScrollAxes, o \in Offsets}
    \cup {[NoTask EXCEPT !.kind = "setNegativeScroll", !.id = i, !.scroll = x,
                         !.scrollMax = m, !.offset = o] :
            i \in Ids, x \in ScrollAxes, m \in ScrollMaxes, o \in Offsets}

InitDom ==
    /\ dom \in {[i \in Ids |-> IF i = "a" THEN NewNode(w, h) ELSE NoNode] :
                    w \in Extents, h \in Extents}
    /\ mutations = 0
    /\ tasks = [t \in TaskIds |-> NoTask]
    /\ rafQueue = <<>>

NoDom ==
    /\ dom = [i \in Ids |-> NoNode]
    /\ mutations = 0
    /\ tasks = [t \in TaskIds |-> NoTask]
    /\ rafQueue = <<>>

\* _Browser_withNode(id, doStuff) and the functions built on it: the task is
\* built (line 225); nothing is done to the host.
Browser_withNode(t, task) ==
    /\ tasks[t].pc = "none"
    /\ tasks' = [tasks EXCEPT ![t] = [task EXCEPT !.pc = "task"]]
    /\ UNCHANGED <<dom, mutations, rafQueue>>

RunWithNode_immediate(t) ==
    /\ tasks[t].pc = "task"
    /\ LET task == tasks[t]
           node == getElementById(dom, task.id)
           done == IF node.present THEN doStuff(task, node)
                   ELSE [node |-> node, value |-> Tuple0]
       IN  /\ dom' = IF node.present THEN [dom EXCEPT ![task.id] = done.node] ELSE dom
           /\ tasks' = [tasks EXCEPT ![t] =
                    [task EXCEPT !.pc = "done",
                                 !.result = withNode_callback(node, task.id, done.value),
                                 !.ran = IF node.present THEN @ + 1 ELSE @,
                                 !.resolved = @ + 1,
                                 !.lookups = @ + 1,
                                 !.atStart = dom[task.id],
                                 !.atTick = dom[task.id],
                                 !.post = dom'[task.id]]]
    /\ UNCHANGED <<mutations, rafQueue>>

\* The scheduler runs the binding (line 225-227): a frame callback is requested.
RunWithNode(t) ==
    /\ tasks[t].pc = "task"
    /\ rafQueue' = Append(rafQueue, t)
    /\ tasks' = [tasks EXCEPT ![t].pc = "waiting",
                              ![t].requested = @ + 1,
                              ![t].atStart = dom[tasks[t].id]]
    /\ UNCHANGED <<dom, mutations>>

\* The oldest requested frame callback fires (line 227-234).
WithNodeFrame ==
    /\ rafQueue # <<>>
    /\ LET t == Head(rafQueue)
           task == tasks[t]
           node == withNode_node(task.atStart, getElementById(dom, task.id))
           done == IF node.present THEN doStuff(task, node)
                   ELSE [node |-> node, value |-> Tuple0]
       IN  /\ dom' = IF node.present THEN [dom EXCEPT ![task.id] = done.node] ELSE dom
           /\ tasks' = [tasks EXCEPT ![t] =
                    [task EXCEPT !.pc = "done",
                                 !.result = withNode_callback(node, task.id, done.value),
                                 !.ran = IF node.present THEN @ + 1 ELSE @,
                                 !.resolved = @ + 1,
                                 !.lookups = @ + 1,
                                 !.atTick = dom[task.id],
                                 !.post = dom'[task.id]]]
    /\ rafQueue' = Tail(rafQueue)
    /\ UNCHANGED mutations

\* The page inserts a node with the id.
HostInsert(id, w, h) ==
    /\ mutations < MaxMutations
    /\ ~dom[id].present
    /\ dom' = [dom EXCEPT ![id] = NewNode(w, h)]
    /\ mutations' = mutations + 1
    /\ UNCHANGED <<tasks, rafQueue>>

\* The page removes the node with the id.
HostRemove(id) ==
    /\ mutations < MaxMutations
    /\ dom[id].present
    /\ dom' = [dom EXCEPT ![id] = NoNode]
    /\ mutations' = mutations + 1
    /\ UNCHANGED <<tasks, rafQueue>>

OtherThanDom == <<animVars, eventVars, decodeVars, navVars, loadVars>>

CreateTask ==
    \E t \in TaskIds, task \in TaskKinds : Browser_withNode(t, task) /\ UNCHANGED OtherThanDom

StartTask == \E t \in TaskIds : RunWithNode(t) /\ UNCHANGED OtherThanDom

TaskFrame == WithNodeFrame /\ UNCHANGED OtherThanDom

Insert ==
    \E i \in Ids, w \in Extents, h \in Extents : HostInsert(i, w, h) /\ UNCHANGED OtherThanDom

Remove == \E i \in Ids : HostRemove(i) /\ UNCHANGED OtherThanDom

NextDom == CreateTask \/ StartTask \/ TaskFrame \/ Insert \/ Remove

(***************************************************************************)
(* FAKE NAVIGATION and GET URL  (Browser.js:23-53, 90-93)                  *)
(***************************************************************************)
NavIds == 1..NumNavTasks

\* A URL string given to pushState / replaceState: an absolute path ("/a"), a
\* relative reference ("b") or the empty string.
UrlStrings == {[absolute |-> TRUE, segments |-> <<"a">>],
               [absolute |-> TRUE, segments |-> <<"a", "b">>],
               [absolute |-> FALSE, segments |-> <<"c">>],
               [absolute |-> FALSE, segments |-> <<>>]}

Origin == "https://host"

\* location.href: the canonical URL of the current entry.
Href(path) == [origin |-> Origin, path |-> path]

Front(q) == SubSeq(q, 1, Len(q) - 1)

\* The URL the host stores for a string given to pushState / replaceState: the
\* string resolved against the current location.
Resolve(base, url) ==
    IF url.absolute THEN Href(url.segments)
    ELSE IF url.segments = <<>> THEN base
    ELSE Href((IF base.path = <<>> THEN <<>> ELSE Front(base.path)) \o url.segments)

\* The href a string would make if it were taken as it is.
AsWritten(url) == Href(url.segments)

Location(h) == h.entries[h.index]

\* _Browser_getUrl(): __VirtualDom_doc.location.href
Browser_getUrl(h) == Location(h)

\* history.pushState({}, '', url): the entries after the current one are
\* dropped and a new entry becomes the current one.
history_pushState(h, url) ==
    [entries |-> Append(SubSeq(h.entries, 1, h.index), Resolve(Location(h), url)),
     index |-> h.index + 1]

\* history.replaceState({}, '', url): the current entry gets the new URL.
history_replaceState(h, url) ==
    [h EXCEPT !.entries[h.index] = Resolve(Location(h), url)]

\* The host carries out history.go(n): it moves by n entries, or does nothing
\* when there is no such entry.
history_traverse(h, n) ==
    IF h.index + n \in 1..Len(h.entries) THEN [h EXCEPT !.index = @ + n] ELSE h

go_calls_host_always(n) == TRUE

\* line 27: history.go(n) is called only when n !== 0.
go_calls_host(n) == n # 0

pushState_result_input(h, url) == AsWritten(url)

\* line 41 and 51: the value the task succeeds with.
pushState_result(h, url) == Browser_getUrl(h)

NoNavTask == [pc |-> "none", kind |-> "go", n |-> 0, url |-> [absolute |-> FALSE, segments |-> <<>>],
              result |-> [tag |-> "none", href |-> Href(<<>>)], hostCalls |-> 0, resolved |-> 0,
              pre |-> Href(<<>>), after |-> Href(<<>>)]

NavKinds ==
    {[NoNavTask EXCEPT !.kind = "go", !.n = k] : k \in (-MaxGo)..MaxGo}
    \cup {[NoNavTask EXCEPT !.kind = k, !.url = u] :
            k \in {"pushState", "replaceState"}, u \in UrlStrings}

NoNavOp == [op |-> "none", url |-> [absolute |-> FALSE, segments |-> <<>>],
            pre |-> Href(<<>>), post |-> Href(<<>>), read |-> Href(<<>>),
            same |-> TRUE]

InitNav ==
    /\ history \in {[entries |-> <<Href(<<>>)>>, index |-> 1],
                    [entries |-> <<Href(<<>>), Href(<<"x", "y">>)>>, index |-> 1],
                    [entries |-> <<Href(<<>>), Href(<<"x", "y">>)>>, index |-> 2]}
    /\ traversals = <<>>
    /\ navTasks = [t \in NavIds |-> NoNavTask]
    /\ lastNav = NoNavOp
    /\ prevNav = NoNavOp

NoNav ==
    /\ history = [entries |-> <<Href(<<>>)>>, index |-> 1]
    /\ traversals = <<>>
    /\ navTasks = [t \in NavIds |-> NoNavTask]
    /\ lastNav = NoNavOp
    /\ prevNav = NoNavOp

\* _Browser_go(n), _Browser_pushState(url), _Browser_replaceState(url): the task
\* is built; nothing is done to the host.
MakeNavTask(t, task) ==
    /\ navTasks[t].pc = "none"
    /\ navTasks' = [navTasks EXCEPT ![t] = [task EXCEPT !.pc = "task"]]
    /\ UNCHANGED <<history, traversals, lastNav, prevNav>>

\* The scheduler runs the binding of _Browser_go(n), line 25-32.
RunGo(t) ==
    /\ navTasks[t].pc = "task" /\ navTasks[t].kind = "go"
    /\ LET n == navTasks[t].n
       IN  /\ traversals' = IF go_calls_host(n) THEN Append(traversals, n) ELSE traversals
           /\ navTasks' = [navTasks EXCEPT
                    ![t].pc = "done",
                    ![t].hostCalls = IF go_calls_host(n) THEN @ + 1 ELSE @,
                    ![t].resolved = @ + 1,
                    ![t].result = [tag |-> "succeed", href |-> Href(<<>>)]]
    /\ prevNav' = lastNav
    /\ lastNav' = [NoNavOp EXCEPT !.op = "go", !.pre = Location(history),
                                  !.post = Location(history)]
    /\ UNCHANGED history

\* The scheduler runs the binding of _Browser_pushState(url), line 38-42, or of
\* _Browser_replaceState(url), line 48-52.
RunState(t) ==
    /\ navTasks[t].pc = "task" /\ navTasks[t].kind \in {"pushState", "replaceState"}
    /\ LET url == navTasks[t].url
           h == IF navTasks[t].kind = "pushState"
                THEN history_pushState(history, url)
                ELSE history_replaceState(history, url)
           r == pushState_result(h, url)
       IN  /\ history' = h
           /\ navTasks' = [navTasks EXCEPT
                    ![t].pc = "done",
                    ![t].hostCalls = @ + 1,
                    ![t].resolved = @ + 1,
                    ![t].result = [tag |-> "succeed", href |-> r],
                    ![t].pre = Location(history),
                    ![t].after = Location(h)]
           /\ prevNav' = lastNav
           /\ lastNav' = [NoNavOp EXCEPT !.op = navTasks[t].kind, !.url = url,
                                         !.pre = Location(history),
                                         !.post = Location(h), !.read = r]
    /\ UNCHANGED traversals

\* The host carries out the oldest history.go(n) call not yet carried out.
Traverse ==
    /\ traversals # <<>>
    /\ history' = history_traverse(history, Head(traversals))
    /\ traversals' = Tail(traversals)
    /\ prevNav' = lastNav
    /\ lastNav' = [NoNavOp EXCEPT !.op = "traverse", !.pre = Location(history),
                                  !.post = Location(history')]
    /\ UNCHANGED navTasks

\* A call of _Browser_getUrl(), line 90-93.
GetUrl ==
    /\ prevNav' = lastNav
    /\ lastNav' = [NoNavOp EXCEPT !.op = "getUrl", !.pre = Location(history),
                                  !.post = Location(history),
                                  !.read = Browser_getUrl(history)]
    /\ UNCHANGED <<history, traversals, navTasks>>

OtherThanNav == <<animVars, eventVars, decodeVars, domVars, loadVars>>

CreateNavTask ==
    \E t \in NavIds, task \in NavKinds : MakeNavTask(t, task) /\ UNCHANGED OtherThanNav

StartGo == \E t \in NavIds : RunGo(t) /\ UNCHANGED OtherThanNav

StartState == \E t \in NavIds : RunState(t) /\ UNCHANGED OtherThanNav

HostTraverse == Traverse /\ UNCHANGED OtherThanNav

ReadUrl == GetUrl /\ UNCHANGED OtherThanNav

NextNav == CreateNavTask \/ StartGo \/ StartState \/ HostTraverse \/ ReadUrl

(***************************************************************************)
(* REAL NAVIGATION  (Browser.js:60-83)                                     *)
(***************************************************************************)
LoadIds == 1..NumLoads

\* The strings given to _Browser_load: URLs the host can parse, and one it
\* cannot.
LoadUrls == {"https://host/a", "https://elsewhere/", "malformed"}

PageLoad(kind, skipCache, url, by) ==
    [kind |-> kind, skipCache |-> skipCache, url |-> url, by |-> by]

\* __VirtualDom_doc.location.reload(skipCache), line 64 and 80
location_reload(skipCache) == PageLoad("reload", skipCache, "", "code")

\* window.location = url, line 74: the host starts loading the URL; given a URL
\* it cannot parse, one host throws and the others reload the page (line 78-79).
location_assign(url, throws) ==
    IF url # "malformed" THEN [threw |-> FALSE, loads |-> <<PageLoad("navigate", FALSE, url, "code")>>]
    ELSE IF throws THEN [threw |-> TRUE, loads |-> <<>>]
    ELSE [threw |-> FALSE, loads |-> <<PageLoad("reload", FALSE, "", "host")>>]

\* _Browser_reload(skipCache), line 62-65: what running the binding does.
Browser_reload(skipCache) ==
    [loads |-> <<location_reload(skipCache)>>, threw |-> FALSE, escaped |-> FALSE,
     callbacks |-> 0]

Browser_load_uncaught(url, throws) ==
    LET a == location_assign(url, throws)
    IN  [loads |-> a.loads, threw |-> a.threw, escaped |-> a.threw, callbacks |-> 0]

\* _Browser_load(url), line 70-82: what running the binding does.
Browser_load(url, throws) ==
    LET a == location_assign(url, throws)
    IN  [loads |-> IF a.threw THEN a.loads \o <<location_reload(FALSE)>> ELSE a.loads,
         threw |-> a.threw, escaped |-> FALSE, callbacks |-> 0]

NoLoadTask == [pc |-> "none", kind |-> "reload", skipCache |-> FALSE, url |-> "",
               loads |-> <<>>, threw |-> FALSE, escaped |-> FALSE, callbacks |-> 0,
               result |-> "none"]

LoadKinds ==
    {[NoLoadTask EXCEPT !.kind = "reload", !.skipCache = b] : b \in BOOLEAN}
    \cup {[NoLoadTask EXCEPT !.kind = "load", !.url = u] : u \in LoadUrls}

InitLoads ==
    /\ hostThrows \in BOOLEAN
    /\ requests = <<>>
    /\ loadTasks = [t \in LoadIds |-> NoLoadTask]

NoLoads ==
    /\ hostThrows = FALSE
    /\ requests = <<>>
    /\ loadTasks = [t \in LoadIds |-> NoLoadTask]

\* _Browser_reload(skipCache), _Browser_load(url): the task is built.
MakeLoadTask(t, task) ==
    /\ loadTasks[t].pc = "none"
    /\ loadTasks' = [loadTasks EXCEPT ![t] = [task EXCEPT !.pc = "task"]]
    /\ UNCHANGED <<hostThrows, requests>>

\* The scheduler runs the binding of the task.  The callback is not called, so
\* the task stays running.
RunLoadTask(t) ==
    /\ loadTasks[t].pc = "task"
    /\ LET did == IF loadTasks[t].kind = "reload"
                  THEN Browser_reload(loadTasks[t].skipCache)
                  ELSE Browser_load(loadTasks[t].url, hostThrows)
       IN  /\ requests' = requests \o did.loads
           /\ loadTasks' = [loadTasks EXCEPT
                    ![t].pc = IF did.callbacks > 0 THEN "done" ELSE "running",
                    ![t].loads = did.loads,
                    ![t].threw = did.threw,
                    ![t].escaped = did.escaped,
                    ![t].callbacks = did.callbacks,
                    ![t].result = IF did.callbacks > 0 THEN "succeed" ELSE "none"]
    /\ UNCHANGED hostThrows

OtherThanLoads == <<animVars, eventVars, decodeVars, domVars, navVars>>

CreateLoadTask ==
    \E t \in LoadIds, task \in LoadKinds : MakeLoadTask(t, task) /\ UNCHANGED OtherThanLoads

StartLoadTask == \E t \in LoadIds : RunLoadTask(t) /\ UNCHANGED OtherThanLoads

NextLoads == CreateLoadTask \/ StartLoadTask

\* The animator, when it is constructed and never notified.
IdleAnimator ==
    /\ model = 0
    /\ state = NO_REQUEST
    /\ frames = 0
    /\ hist = <<>>
    /\ notified = 0
    /\ sinceNotify = <<0>>

\* _Browser_makeAnimator(model, draw): draw(model), state = NO_REQUEST.
InitAnimator ==
    /\ model \in Models
    /\ state = NO_REQUEST
    /\ frames = 0
    /\ hist = <<>>
    /\ notified = model
    /\ sinceNotify = draw(<<>>, model)

\* The function _Browser_makeAnimator returns, called with (nextModel, isSync).
Notify(nextModel, isSync) ==
    LET m == notify_model(model, nextModel)
        drawn == IF notify_draws(isSync) THEN draw(<<>>, m) ELSE <<>>
        req == notify_requests(state, isSync)
        f == IF req THEN Browser_requestAnimationFrame(frames) ELSE frames
        s == notify_state(state, isSync)
    IN  /\ model' = m
        /\ state' = s
        /\ frames' = f
        /\ notified' = nextModel
        /\ sinceNotify' = drawn
        /\ hist' = Push(hist, [op |-> "notify", arg |-> nextModel, sync |-> isSync,
                               pre |-> state, post |-> s, draws |-> drawn,
                               sched |-> IF req THEN 1 ELSE 0,
                               before |-> frames, frames |-> f, stored |-> m,
                               undrawn |-> sinceNotify = <<>>])

\* An outstanding animation-frame callback fires: updateIfNeeded().
UpdateIfNeeded ==
    /\ frames > 0
    /\ LET redraw == updateIfNeeded_redraws(state)
           fired == frames - 1
           f == IF redraw THEN Browser_requestAnimationFrame(fired) ELSE fired
           drawn == IF redraw THEN draw(<<>>, model) ELSE <<>>
           s == updateIfNeeded_state(state)
       IN  /\ state' = s
           /\ frames' = f
           /\ model' = model
           /\ notified' = notified
           /\ sinceNotify' = Grow(sinceNotify, drawn)
           /\ hist' = Push(hist, [op |-> "frame", arg |-> model, sync |-> FALSE,
                                  pre |-> state, post |-> s, draws |-> drawn,
                                  sched |-> IF redraw THEN 1 ELSE 0,
                                  before |-> frames, frames |-> f, stored |-> model,
                                  undrawn |-> sinceNotify = <<>>])

NotifySync == \E m \in Models : Notify(m, TRUE) /\ UNCHANGED <<eventVars, decodeVars, domVars, navVars, loadVars>>

NotifyAsync == \E m \in Models : Notify(m, FALSE) /\ UNCHANGED <<eventVars, decodeVars, domVars, navVars, loadVars>>

FrameFires == UpdateIfNeeded /\ UNCHANGED <<eventVars, decodeVars, domVars, navVars, loadVars>>

NextAnimator == NotifySync \/ NotifyAsync \/ FrameFires

InitSpecAnimator == InitAnimator /\ NoEvents /\ decoded = <<>> /\ NoDom /\ NoNav /\ NoLoads

SpecAnimator == InitSpecAnimator /\ [][NextAnimator]_vars

\* The host's animation clock keeps running: a requested frame callback fires.
FairSpecAnimator == SpecAnimator /\ WF_vars(FrameFires)

InitSpecEvents == IdleAnimator /\ InitEvents /\ decoded = <<>> /\ NoDom /\ NoNav /\ NoLoads

SpecEvents == InitSpecEvents /\ [][NextEvents]_vars

InitSpecDom == IdleAnimator /\ NoEvents /\ decoded = <<>> /\ InitDom /\ NoNav /\ NoLoads

SpecDom == InitSpecDom /\ [][NextDom]_vars

InitSpecNav == IdleAnimator /\ NoEvents /\ decoded = <<>> /\ NoDom /\ InitNav /\ NoLoads

SpecNav == InitSpecNav /\ [][NextNav]_vars

InitSpecLoads == IdleAnimator /\ NoEvents /\ decoded = <<>> /\ NoDom /\ NoNav /\ InitLoads

SpecLoads == InitSpecLoads /\ [][NextLoads]_vars

\* The deferred host operations together: one navigation task and one DOM task
\* made and run by the scheduler, in any order, on a page with one node.
FirstNav == CHOOSE t \in NavIds : \A u \in NavIds : t <= u

CreateOneNavTask ==
    \E task \in NavKinds : MakeNavTask(FirstNav, task) /\ UNCHANGED OtherThanNav

InitSpecDeferred ==
    /\ IdleAnimator /\ NoEvents /\ decoded = <<>> /\ NoNav /\ NoLoads
    /\ dom = [i \in Ids |-> IF i = "a" THEN NewNode(MaxExtent, MaxExtent) ELSE NoNode]
    /\ mutations = 0
    /\ tasks = [t \in TaskIds |-> NoTask]
    /\ rafQueue = <<>>

NextDeferred ==
    \/ CreateOneNavTask \/ StartGo \/ StartState \/ HostTraverse
    \/ CreateTask \/ StartTask \/ TaskFrame

SpecDeferred == InitSpecDeferred /\ [][NextDeferred]_vars

InitSpecDecode == IdleAnimator /\ NoEvents /\ decoded = <<>> /\ NoDom /\ NoNav /\ NoLoads

SpecDecode == InitSpecDecode /\ [][NextDecode]_vars

(***************************************************************************)
(* Properties of the animator.                                             *)
(***************************************************************************)
IsAsync(e) == e.op = "notify" /\ ~e.sync

IsSync(e) == e.op = "notify" /\ e.sync

IsFrame(e) == e.op = "frame"

\* C1: in every reachable state of the animator, under any interleaving of
\* synchronous notifies, asynchronous notifies and frame callbacks, at most one
\* animation-frame callback is requested and not yet fired.
C1_AtMostOneFrame == frames <= 1

\* A frame is outstanding although asynchronous notifies arrived while one was
\* already requested.
C1_Witness ==
    /\ frames = 1
    /\ \E i \in 1..Len(hist) : IsAsync(hist[i]) /\ hist[i].pre # NO_REQUEST
    /\ \E i \in 1..Len(hist) : IsFrame(hist[i]) /\ hist[i].sched = 1

\* C2: no asynchronous notify draws, and a frame callback that fires right after
\* a run of asynchronous notifies performs exactly one draw, with the model of
\* the last notify of the run.
C2_AsyncRunOneDraw ==
    /\ \A i \in 1..Len(hist) : IsAsync(hist[i]) => hist[i].draws = <<>>
    /\ \A i \in 2..Len(hist) :
        (IsFrame(hist[i]) /\ IsAsync(hist[i-1])) => hist[i].draws = <<hist[i-1].arg>>

\* Two asynchronous notifies with different models, then the frame callback.
C2_Witness ==
    /\ Len(hist) >= 3
    /\ LET n == Len(hist)
       IN  /\ IsAsync(hist[n-2]) /\ IsAsync(hist[n-1]) /\ IsFrame(hist[n])
           /\ hist[n-2].arg # hist[n-1].arg
           /\ hist[n].draws = <<hist[n-1].arg>>

\* The part of the scenario that comes before the frame callback fires.
ScenarioNotifies(e1, e2) ==
    (IsAsync(e1) /\ e1.pre = NO_REQUEST /\ IsAsync(e2)) =>
        /\ e1.post = PENDING_REQUEST /\ e1.sched = 1 /\ e1.frames = 1
        /\ e2.post = PENDING_REQUEST /\ e2.sched = 0 /\ e2.frames = 1
        /\ e2.stored = e2.arg

\* C3 as stated: after notify(S1, async) and notify(S2, async) from NoRequest the
\* frame callback draws S2 and the state returns to NoRequest; a frame callback
\* firing in a state other than ExtraRequest draws the latest model and returns
\* to NoRequest.
C3_Original ==
    /\ \A i \in 2..Len(hist) : ScenarioNotifies(hist[i-1], hist[i])
    /\ \A i \in 1..Len(hist) :
        (IsFrame(hist[i]) /\ hist[i].pre # EXTRA_REQUEST) =>
            /\ hist[i].draws = <<hist[i].stored>>
            /\ hist[i].post = NO_REQUEST

\* C3 (amended): after notify(S1, async) and notify(S2, async) from NoRequest the
\* state is PendingRequest with one frame requested and stored model S2; the
\* frame callback then draws S2, requests one further frame and moves to
\* ExtraRequest; the state returns to NoRequest, with no draw and no request,
\* when a frame callback fires in ExtraRequest.
C3_Scenario ==
    /\ \A i \in 2..Len(hist) : ScenarioNotifies(hist[i-1], hist[i])
    /\ \A i \in 2..Len(hist) :
        (IsFrame(hist[i]) /\ IsAsync(hist[i-1])) => hist[i].draws = <<hist[i-1].arg>>
    /\ \A i \in 1..Len(hist) :
        (IsFrame(hist[i]) /\ hist[i].pre # EXTRA_REQUEST) =>
            /\ hist[i].draws = <<hist[i].stored>>
            /\ hist[i].post = EXTRA_REQUEST
            /\ hist[i].sched = 1 /\ hist[i].frames = 1
    /\ \A i \in 1..Len(hist) :
        (IsFrame(hist[i]) /\ hist[i].pre = EXTRA_REQUEST) =>
            /\ hist[i].draws = <<>>
            /\ hist[i].post = NO_REQUEST
            /\ hist[i].sched = 0 /\ hist[i].frames = 0

\* The scenario has run: notify(S1, async) from NoRequest, notify(S2, async),
\* frame callback.
C3_Witness ==
    /\ Len(hist) >= 3
    /\ LET n == Len(hist)
       IN  /\ IsAsync(hist[n-2]) /\ hist[n-2].pre = NO_REQUEST
           /\ IsAsync(hist[n-1]) /\ hist[n-1].arg # hist[n-2].arg
           /\ IsFrame(hist[n])
    /\ state = EXTRA_REQUEST /\ frames = 1

\* C4: a synchronous notify performs exactly one draw, with the model passed,
\* within the call, whatever the animator state and whether or not a frame
\* callback is outstanding.
C4_SyncDrawsNow ==
    \A i \in 1..Len(hist) : IsSync(hist[i]) => hist[i].draws = <<hist[i].arg>>

\* Synchronous notifies were made in PendingRequest and in ExtraRequest, with a
\* frame callback outstanding.
C4_Witness ==
    /\ \E i \in 1..Len(hist) :
        IsSync(hist[i]) /\ hist[i].pre = PENDING_REQUEST /\ hist[i].before = 1
    /\ \E i \in 1..Len(hist) :
        IsSync(hist[i]) /\ hist[i].pre = EXTRA_REQUEST /\ hist[i].before = 1
    /\ \E i \in 1..Len(hist) :
        IsSync(hist[i]) /\ hist[i].pre = NO_REQUEST /\ hist[i].before = 0

\* C5: when every requested frame callback eventually fires, the model of the
\* most recent notify is eventually drawn, and between one notify and the next
\* it is drawn at most once and nothing else is drawn.
C5_EventuallyOneDraw ==
    /\ [](sinceNotify = <<>> \/ sinceNotify = <<notified>>)
    /\ (sinceNotify = <<>>) ~> (sinceNotify = <<notified>>)

\* An asynchronous notify was drawn by the frame callback, and the following
\* frame callback drew nothing more.
C5_Witness ==
    /\ Len(hist) >= 3
    /\ LET n == Len(hist)
       IN  /\ IsAsync(hist[n-2])
           /\ IsFrame(hist[n-1]) /\ hist[n-1].draws = <<notified>>
           /\ IsFrame(hist[n]) /\ hist[n].draws = <<>>
    /\ sinceNotify = <<notified>>

(***************************************************************************)
(* Properties of the event subscription and of the event decoder.          *)
(***************************************************************************)
\* C6: once the teardown of a subscription has run, no event dispatched
\* afterwards runs its handler: the subscription makes no call of sendToSelf and
\* no scheduler submission, whatever passive is and whether or not the host
\* supports passive listeners.
C6_NoMessageAfterTeardown == \A s \in SubIds : subs[s].late = 0

\* A passive subscription on a host that supports passive listeners was torn
\* down after it had received an event, and an event of its name was then
\* dispatched on its node.
C6_Witness ==
    \E s \in SubIds :
        /\ subs[s].pc = "killed" /\ subs[s].node = "document"
        /\ subs[s].passive /\ passiveSupported
        /\ subs[s].spawned = 1 /\ subs[s].after >= 1

\* C7: _Browser_decodeEvent calls event.preventDefault() exactly when the decoder
\* succeeds with the prevent-default flag set; it returns Just the decoded value
\* when the decoder succeeds, and Nothing, with no call of preventDefault, when
\* the decoder fails.
C7_DecodePreventsIffFlagged ==
    \A i \in 1..Len(decoded) :
        LET c == decoded[i]
        IN  /\ (c.calls >= 1) <=> (c.decoder.ok /\ c.decoder.preventDefault)
            /\ c.calls <= 1
            /\ c.decoder.ok => c.ret = Just(c.decoder.value)
            /\ ~c.decoder.ok => (c.ret = Nothing /\ c.calls = 0)

\* A successful flagged decode, and a successful decode without the flag,
\* have both been made.
C7_Witness ==
    /\ \E i \in 1..Len(decoded) :
        decoded[i].decoder.ok /\ decoded[i].decoder.preventDefault /\ decoded[i].calls = 1
    /\ \E i \in 1..Len(decoded) :
        decoded[i].decoder.ok /\ ~decoded[i].decoder.preventDefault /\ decoded[i].calls = 0

(***************************************************************************)
(* Properties of the DOM tasks and of navigation.                          *)
(***************************************************************************)
\* What a task made with _Browser_withNode succeeds with, given the node found.
ValueFor(task, node) ==
    IF task.kind = "getScroll" THEN Tuple2(node.scrollLeft, node.scrollTop) ELSE Tuple0

\* C8: a withNode task is decided by the document at the frame tick at which the
\* lookup runs: if a node with the id exists then, the task succeeds with the
\* result of the action on that node; otherwise the action is not invoked and the
\* task fails (a failure value given to the callback) with NotFound carrying the
\* requested id.
C8_WithNodeAtTick ==
    \A t \in TaskIds :
        tasks[t].pc = "done" =>
            IF tasks[t].atTick.present
            THEN /\ tasks[t].result = Scheduler_succeed(ValueFor(tasks[t], tasks[t].atTick))
                 /\ tasks[t].ran = 1
            ELSE /\ tasks[t].result = Scheduler_fail(Dom_NotFound(tasks[t].id))
                 /\ tasks[t].ran = 0
                 /\ tasks[t].post = tasks[t].atTick

\* The node existed when the task was started and was removed before the frame
\* tick: the task failed with NotFound of its id.
C8_Witness ==
    \E t \in TaskIds :
        /\ tasks[t].pc = "done"
        /\ tasks[t].atStart.present /\ ~tasks[t].atTick.present
        /\ tasks[t].id = "a"
        /\ tasks[t].result = Scheduler_fail(Dom_NotFound("a"))

\* C9: setNegativeScroll(scroll, scrollMax, id, offset) on an existing node, with
\* M the node's scrollMax at the frame tick, leaves the scroll position on that
\* axis where setPositiveScroll(scroll, id, M - offset) would leave it, and
\* leaves the other axis as it was.
C9_NegativeIsPositiveFromMax ==
    \A t \in TaskIds :
        (/\ tasks[t].pc = "done" /\ tasks[t].kind = "setNegativeScroll"
         /\ tasks[t].atTick.present) =>
            LET task == tasks[t]
                M == task.atTick[task.scrollMax]
                positive == Browser_setPositiveScroll(task.scroll, M - task.offset, task.atTick)
            IN  /\ task.post[task.scroll] = positive.node[task.scroll]
                /\ task.post[OtherAxis(task.scroll)] = task.atTick[OtherAxis(task.scroll)]

\* A setNegativeScroll with a non-zero offset has moved a node to a position
\* strictly between 0 and the maximum.
C9_Witness ==
    \E t \in TaskIds :
        /\ tasks[t].pc = "done" /\ tasks[t].kind = "setNegativeScroll"
        /\ tasks[t].atTick.present
        /\ tasks[t].offset = 1
        /\ tasks[t].atTick[tasks[t].scrollMax] = 2
        /\ tasks[t].atTick[tasks[t].scroll] = 0
        /\ tasks[t].post[tasks[t].scroll] = 1

IsStateOp(o) == o.op \in {"pushState", "replaceState"}

\* C10: pushState(url) and replaceState(url), when run, change the host history
\* and then succeed with the location read back from the host after the change
\* (the url resolved by the host, not the string given); after pushState of an
\* absolute path a following getUrl() returns a URL with exactly that path; and
\* getUrl() leaves the host as it is.
C10_StateThenReadBack ==
    /\ IsStateOp(lastNav) =>
        /\ lastNav.post = Resolve(lastNav.pre, lastNav.url)
        /\ lastNav.read = lastNav.post
        /\ Location(history) = lastNav.post
        /\ lastNav.url.absolute => lastNav.read.path = lastNav.url.segments
    /\ \A t \in NavIds :
        (navTasks[t].pc = "done" /\ navTasks[t].kind \in {"pushState", "replaceState"}) =>
            /\ navTasks[t].result = [tag |-> "succeed", href |-> navTasks[t].after]
            /\ navTasks[t].after = Resolve(navTasks[t].pre, navTasks[t].url)
            /\ navTasks[t].hostCalls = 1
    /\ (lastNav.op = "getUrl" /\ IsStateOp(prevNav)) =>
        /\ lastNav.read = prevNav.post
        /\ prevNav.url.absolute => lastNav.read.path = prevNav.url.segments
    /\ lastNav.op = "getUrl" => (lastNav.post = lastNav.pre /\ lastNav.read = Location(history))

\* pushState("/a") has run on a page at another path and the getUrl() that
\* followed returned the path /a; a relative url was also resolved by the host.
C10_Witness ==
    /\ lastNav.op = "getUrl" /\ prevNav.op = "pushState"
    /\ prevNav.url = [absolute |-> TRUE, segments |-> <<"a">>]
    /\ prevNav.pre.path # <<"a">>
    /\ lastNav.read.path = <<"a">>
    /\ \E t \in NavIds :
        /\ navTasks[t].pc = "done" /\ navTasks[t].kind = "replaceState"
        /\ ~navTasks[t].url.absolute
        /\ navTasks[t].result.href # AsWritten(navTasks[t].url)

(***************************************************************************)
(* Properties of real navigation.                                          *)
(***************************************************************************)
\* C11: when the assignment to location throws on a malformed URL, _Browser_load
\* catches the exception and asks for a reload with caching enabled
\* (reload(false)) instead, and no exception leaves the binding; on the normal
\* path and on the exceptional one, load, like reload, never calls its callback,
\* so the task neither succeeds nor fails.
C11_LoadCatchesAndNeverResolves ==
    \A t \in LoadIds :
        loadTasks[t].pc \notin {"none", "task"} =>
            /\ loadTasks[t].pc = "running"
            /\ loadTasks[t].callbacks = 0 /\ loadTasks[t].result = "none"
            /\ ~loadTasks[t].escaped
            /\ (loadTasks[t].kind = "load" /\ loadTasks[t].threw) =>
                    loadTasks[t].loads = <<PageLoad("reload", FALSE, "", "code")>>
            /\ (loadTasks[t].kind = "load" /\ ~loadTasks[t].threw /\ loadTasks[t].url # "malformed") =>
                    loadTasks[t].loads = <<PageLoad("navigate", FALSE, loadTasks[t].url, "code")>>

\* _Browser_load was run with a malformed URL on the host that throws, and with
\* a well-formed URL.
C11_Witness ==
    /\ hostThrows
    /\ \E t \in LoadIds :
        /\ loadTasks[t].pc = "running" /\ loadTasks[t].kind = "load"
        /\ loadTasks[t].threw
        /\ requests # <<>> /\ requests[Len(requests)].kind = "reload"
    /\ \E t \in LoadIds :
        /\ loadTasks[t].pc = "running" /\ loadTasks[t].kind = "load"
        /\ ~loadTasks[t].threw

(***************************************************************************)
(* Properties of the deferred host operations.                             *)
(***************************************************************************)
\* A task that was built and not yet run has done nothing to the host.
BuiltOnlyIsInert ==
    /\ \A t \in NavIds :
        navTasks[t].pc = "task" => (navTasks[t].hostCalls = 0 /\ navTasks[t].resolved = 0)
    /\ (\A t \in NavIds : navTasks[t].pc \in {"none", "task"}) =>
        (history = [entries |-> <<Href(<<>>)>>, index |-> 1] /\ traversals = <<>>)
    /\ \A t \in TaskIds :
        tasks[t].pc = "task" =>
            /\ tasks[t].requested = 0 /\ tasks[t].lookups = 0
            /\ tasks[t].ran = 0 /\ tasks[t].resolved = 0
    /\ (\A t \in TaskIds : tasks[t].pc \in {"none", "task"}) =>
        (rafQueue = <<>> /\ dom["a"] = NewNode(MaxExtent, MaxExtent) /\ dom["b"] = NoNode)

\* A task made with _Browser_withNode asks for one frame when it is run, looks
\* the node up once when the frame fires, and calls its callback once, then.
WithNodeOnce ==
    \A t \in TaskIds :
        /\ tasks[t].pc = "waiting" =>
            /\ tasks[t].requested = 1 /\ tasks[t].lookups = 0
            /\ tasks[t].ran = 0 /\ tasks[t].resolved = 0
        /\ tasks[t].pc = "done" =>
            /\ tasks[t].requested = 1 /\ tasks[t].lookups = 1
            /\ tasks[t].ran <= 1 /\ tasks[t].resolved = 1

\* C12 as stated: building a deferred operation does nothing to the host; a run
\* performs the host action exactly once, and calls the completion callback
\* exactly once for go, pushState, replaceState and withNode.
C12_Original ==
    /\ BuiltOnlyIsInert
    /\ WithNodeOnce
    /\ \A t \in NavIds :
        navTasks[t].pc = "done" => (navTasks[t].hostCalls = 1 /\ navTasks[t].resolved = 1)

\* C12 (amended): building a deferred operation does nothing to the host; a run
\* performs the host action exactly once, except that a run of go(0) performs
\* none; the completion callback is called exactly once per run of go,
\* pushState, replaceState and withNode.
C12_DeferredOnce ==
    /\ BuiltOnlyIsInert
    /\ WithNodeOnce
    /\ \A t \in NavIds :
        navTasks[t].pc = "done" =>
            /\ navTasks[t].resolved = 1
            /\ navTasks[t].hostCalls =
                    IF navTasks[t].kind = "go" /\ navTasks[t].n = 0 THEN 0 ELSE 1

\* go(0) has been run, and a DOM task has run its action on the node it found.
C12_Witness ==
    /\ \E t \in NavIds :
        /\ navTasks[t].pc = "done" /\ navTasks[t].kind = "go" /\ navTasks[t].n = 0
        /\ navTasks[t].resolved = 1
    /\ \E t \in TaskIds : tasks[t].pc = "done" /\ tasks[t].ran = 1

(***************************************************************************)
(* Further properties of the animator.                                     *)
(***************************************************************************)
\* C13 as stated: a frame callback that fires in ExtraRequest schedules another
\* frame callback, draws the latest stored model, and leaves the animator
\* pending (not NoRequest).
C13_Original ==
    \A i \in 1..Len(hist) :
        (IsFrame(hist[i]) /\ hist[i].pre = EXTRA_REQUEST) =>
            /\ hist[i].sched = 1
            /\ hist[i].draws = <<hist[i].stored>>
            /\ hist[i].post # NO_REQUEST

\* C13 (amended): a frame callback that fires in ExtraRequest schedules no
\* frame callback, draws nothing, and moves the animator to NoRequest with no
\* frame callback outstanding.
C13_ExtraFrameEnds ==
    \A i \in 1..Len(hist) :
        (IsFrame(hist[i]) /\ hist[i].pre = EXTRA_REQUEST) =>
            /\ hist[i].sched = 0 /\ hist[i].frames = 0
            /\ hist[i].draws = <<>>
            /\ hist[i].post = NO_REQUEST

\* A frame callback has fired in ExtraRequest that a synchronous notify during
\* PendingRequest had led to.
C13_Witness ==
    /\ Len(hist) >= 2
    /\ IsSync(hist[Len(hist) - 1]) /\ hist[Len(hist) - 1].pre = PENDING_REQUEST
    /\ IsFrame(hist[Len(hist)]) /\ hist[Len(hist)].pre = EXTRA_REQUEST
    /\ state = NO_REQUEST

\* What an asynchronous notify does in NoRequest, and what no asynchronous
\* notify does in the other states.
AsyncNotifyRequests(e) ==
    /\ e.draws = <<>> /\ e.stored = e.arg
    /\ e.pre = NO_REQUEST => (e.sched = 1 /\ e.frames = e.before + 1 /\ e.post = PENDING_REQUEST)
    /\ e.pre # NO_REQUEST => (e.sched = 0 /\ e.frames = e.before)

\* C14 as stated: an asynchronous notify schedules one frame callback and moves
\* to PendingRequest only in NoRequest; in PendingRequest and in ExtraRequest it
\* changes the stored model only: state, outstanding frame callbacks and drawn
\* output are unchanged.
C14_Original ==
    \A i \in 1..Len(hist) :
        IsAsync(hist[i]) =>
            /\ AsyncNotifyRequests(hist[i])
            /\ hist[i].pre # NO_REQUEST => hist[i].post = hist[i].pre

\* C14 (amended): an asynchronous notify schedules one frame callback only in
\* NoRequest; in PendingRequest and in ExtraRequest it schedules none and draws
\* nothing; in every state it stores the model and leaves the animator in
\* PendingRequest, so in ExtraRequest the state does change, to PendingRequest.
C14_AsyncNotify ==
    \A i \in 1..Len(hist) :
        IsAsync(hist[i]) =>
            /\ AsyncNotifyRequests(hist[i])
            /\ hist[i].post = PENDING_REQUEST

\* Asynchronous notifies were made in ExtraRequest and in PendingRequest.
C14_Witness ==
    /\ \E i \in 1..Len(hist) : IsAsync(hist[i]) /\ hist[i].pre = EXTRA_REQUEST
    /\ \E i \in 1..Len(hist) : IsAsync(hist[i]) /\ hist[i].pre = PENDING_REQUEST
    /\ frames = 1

\* C15: a synchronous notify neither schedules nor cancels a frame callback, and
\* changes the state only from PendingRequest to ExtraRequest; NoRequest and
\* ExtraRequest are left as they are.
C15_SyncNotifyEscalates ==
    \A i \in 1..Len(hist) :
        IsSync(hist[i]) =>
            /\ hist[i].sched = 0 /\ hist[i].frames = hist[i].before
            /\ hist[i].post = IF hist[i].pre = PENDING_REQUEST THEN EXTRA_REQUEST
                              ELSE hist[i].pre

\* Synchronous notifies were made in PendingRequest, in ExtraRequest and in
\* NoRequest.
C15_Witness ==
    /\ \E i \in 1..Len(hist) :
        IsSync(hist[i]) /\ hist[i].pre = PENDING_REQUEST /\ hist[i].post = EXTRA_REQUEST
    /\ \E i \in 1..Len(hist) :
        IsSync(hist[i]) /\ hist[i].pre = EXTRA_REQUEST /\ hist[i].post = EXTRA_REQUEST
    /\ \E i \in 1..Len(hist) :
        IsSync(hist[i]) /\ hist[i].pre = NO_REQUEST /\ hist[i].post = NO_REQUEST

(***************************************************************************)
(* withNode defers its work to a frame callback.                           *)
(***************************************************************************)
InRafQueue(t) == \E i \in 1..Len(rafQueue) : rafQueue[i] = t

\* C16: when the scheduler starts a withNode operation, neither the lookup nor
\* the action runs in that turn: the started task has requested one frame
\* callback, which is still outstanding, and has looked nothing up, run nothing
\* and resolved nothing.  The lookup and the action run in that frame callback
\* only, so a finished task has had its one frame callback fire, and it is the
\* document of the tick, with every change made since the start, that decided
\* between success and NotFound.
C16_WithNodeDeferred ==
    \A t \in TaskIds :
        /\ tasks[t].pc = "waiting" =>
            /\ tasks[t].requested = 1 /\ InRafQueue(t)
            /\ tasks[t].lookups = 0 /\ tasks[t].ran = 0 /\ tasks[t].resolved = 0
            /\ tasks[t].result = NoResult
        /\ tasks[t].pc = "done" =>
            /\ tasks[t].requested = 1 /\ ~InRafQueue(t)
            /\ tasks[t].lookups = 1 /\ tasks[t].resolved = 1
            /\ tasks[t].ran = (IF tasks[t].atTick.present THEN 1 ELSE 0)
            /\ (tasks[t].result.tag = "succeed") = tasks[t].atTick.present
        /\ tasks[t].pc \in {"none", "task"} =>
            /\ tasks[t].requested = 0 /\ tasks[t].lookups = 0 /\ tasks[t].resolved = 0

\* No node had the id when the task was started, one was inserted before the
\* frame tick, and the task succeeded on it.
C16_Witness ==
    \E t \in TaskIds :
        /\ tasks[t].pc = "done"
        /\ ~tasks[t].atStart.present /\ tasks[t].atTick.present
        /\ tasks[t].result.tag = "succeed" /\ tasks[t].ran = 1
        /\ tasks[t].requested = 1

(***************************************************************************)
(* Registration and removal of listeners match.                            *)
(***************************************************************************)
\* The listener a running subscription has registered with the host.
ListenerOf(s) ==
    [node |-> subs[s].node, type |-> subs[s].eventName, handler |-> s,
     capture |-> FALSE, passive |-> passiveSupported /\ subs[s].passive]

\* C17: for every node, event name, passive value and host passive-support
\* setting, the listeners registered with the host are exactly those of the
\* subscriptions that have been started and not torn down: a teardown removes
\* the listener its subscribe added (the add passes a passive option, the
\* remove passes none) and no listener of another live subscription, also on
\* the same node and event name.
C17_SubscribeTeardownSymmetric ==
    listeners = {ListenerOf(s) : s \in {r \in SubIds : /\ subs[r].pc = "running"
                                                       /\ subs[r].node # "fakeNode"}}

\* A passive subscription on a host with passive support was torn down while
\* another subscription on the same node and event name stayed live with its
\* listener registered.
C17_Witness ==
    \E s \in SubIds, r \in SubIds :
        /\ s # r /\ passiveSupported
        /\ subs[s].pc = "killed" /\ subs[s].passive /\ subs[s].node = "document"
        /\ subs[r].pc = "running" /\ subs[r].node = "document"
        /\ subs[r].eventName = subs[s].eventName
        /\ listeners = {ListenerOf(r)}

(***************************************************************************)
(* What the animator guarantees as a whole.                                *)
(***************************************************************************)
\* C18: in every reachable state in which the animator is NoRequest, and in
\* every one in which it is ExtraRequest, the model of the most recent draw is
\* the model of the most recent notify (the initial model if there was none):
\* the animator is never idle with a stale screen.  In NoRequest no frame
\* callback is outstanding.
C18_UpToDateWhenNotPending ==
    /\ state # PENDING_REQUEST =>
        /\ sinceNotify # <<>>
        /\ sinceNotify[Len(sinceNotify)] = notified
        /\ notified = model
    /\ state = NO_REQUEST => frames = 0

\* An asynchronous notify changed the model, the frame callback drew it, and
\* the animator is in ExtraRequest with that model on the screen.
C18_Witness ==
    /\ Len(hist) >= 3
    /\ state = EXTRA_REQUEST
    /\ IsFrame(hist[Len(hist)]) /\ hist[Len(hist)].draws = <<notified>>
    /\ IsAsync(hist[Len(hist) - 1]) /\ hist[Len(hist) - 1].arg = notified
    /\ hist[Len(hist) - 2].stored # notified

\* C19: apart from the draw at construction, every draw has a notify before it
\* that no earlier draw has served: a frame callback draws only when there has
\* been a notify since the last draw, a frame callback that fires with no notify
\* since the last draw draws nothing, and no call draws more than once.
C19_NoRedundantDraw ==
    \A i \in 1..Len(hist) :
        /\ Len(hist[i].draws) <= 1
        /\ IsFrame(hist[i]) => ((hist[i].draws # <<>>) = hist[i].undrawn)
        /\ (hist[i].op = "notify" /\ hist[i].draws # <<>>) => hist[i].draws = <<hist[i].arg>>

\* A frame callback fired after a synchronous notify had already drawn the
\* model, and drew nothing; another frame callback drew for an asynchronous
\* notify.
C19_Witness ==
    /\ \E i \in 1..Len(hist) :
        IsFrame(hist[i]) /\ ~hist[i].undrawn /\ hist[i].draws = <<>>
                         /\ hist[i].pre = EXTRA_REQUEST
    /\ \E i \in 2..Len(hist) :
        IsFrame(hist[i]) /\ hist[i].undrawn /\ hist[i].draws # <<>>
                         /\ IsAsync(hist[i - 1])

\* The animator is at rest.
Quiescent == state = NO_REQUEST /\ frames = 0

\* After the last notify, two frame callbacks at most: the animator is at rest
\* once two frame callbacks have fired in a row, so that a third cannot follow.
AtRestAfterTwoFrames ==
    /\ (Len(hist) >= 2 /\ IsFrame(hist[Len(hist)]) /\ IsFrame(hist[Len(hist) - 1]))
            => Quiescent
    /\ (Len(hist) >= 3 /\ IsFrame(hist[Len(hist)]) /\ IsFrame(hist[Len(hist) - 1]))
            => ~IsFrame(hist[Len(hist) - 2])
    /\ hist = <<>> => Quiescent

\* C20: if the notify calls stop and every requested frame callback eventually
\* fires, the animator comes to rest in NoRequest with no frame callback
\* outstanding, after at most two further frame callbacks, and stays at rest:
\* the frame callback does not request itself for ever.
C20_Quiescence ==
    /\ []AtRestAfterTwoFrames
    /\ ([]<><<NotifySync \/ NotifyAsync>>_vars) \/ <>[]Quiescent

\* Two frame callbacks have fired since an asynchronous notify and the animator
\* is at rest.
C20_Witness ==
    /\ Len(hist) >= 3
    /\ IsAsync(hist[Len(hist) - 2])
    /\ IsFrame(hist[Len(hist) - 1]) /\ hist[Len(hist) - 1].draws # <<>>
    /\ IsFrame(hist[Len(hist)]) /\ hist[Len(hist)].draws = <<>>
    /\ Quiescent

=============================================================================
